---- MODULE Spec2Model ----
(***************************************************************************)
(* Foresight client (foreai-co/fore-js): the log buffer and its flush,     *)
(* and generateAnswersAndRunEval.                                          *)
(*                                                                         *)
(* Two builds of the client are in the repository and both are modelled:   *)
(*   "fore"  src/fore/src/client.js : log() is async and awaits flush()    *)
(*   "lib"   src/lib/client.js      : log() is synchronous and calls       *)
(*                                    flush() without awaiting it          *)
(* The caller is a single task that awaits every call it makes (README,    *)
(* example/index.js).  The transport answers every request with either a   *)
(* response body (non-null) or an error.                                   *)
(***************************************************************************)
EXTENDS Integers, Sequences, FiniteSets, TLC

(* ---- bounds ---- *)
MaxThreshold == 3   \* largest maxEntriesBeforeAutoFlush a client is built with
MaxCalls == 4       \* log() calls made to one client

Variants == {"fore", "lib"}

VARIABLES
    variant,                    \* which build of client.js is running
    maxEntriesBeforeAutoFlush,  \* this.maxEntriesBeforeAutoFlush
    logEntries,                 \* this.logEntries
    inflight,                   \* PUT /api/eval/log requests not yet answered
    pc,                         \* the call the caller is suspended in, or "idle"
    lastCall,                   \* the caller's most recent call and what it saw
    nextId,                     \* log() calls made so far
    sinceFlush,                 \* log() calls since the last successful flush
    lastAnswer,                 \* the transport's most recent answer
    unhandled,                  \* a rejected promise nobody awaited
    delivered,                  \* per log() call: successful uploads of its entry
    tagToLogEntries,            \* tagged client: tag -> buffered entries
    tagPc,                      \* tagged client: call the caller is suspended in
    uploading,                  \* tagged client: tag whose upload is in flight
    pendingTags,                \* tagged client: tags this flush() has yet to upload
    tagCall,                    \* tagged client: the caller's most recent call
    evalPc,                     \* generateAnswersAndRunEval: where the call stands
    batchSize,                  \* the batchSize the caller passed with the call
    queries,                    \* the body getEvalrunQueries resolved with
    generated,                  \* the generateFn calls made so far, in call order
    outputs,                    \* const outputs = {}: its entries in insertion order
    evalCalls,                  \* transport calls the call has issued, in issue order
    evalResult,                 \* what the promise of the call settled with
    setPc,                      \* createSimpleEvalset: "idle" or awaiting the POST
    setCall                     \* the most recent createSimpleEvalset call

bufVars == <<logEntries, inflight, pc, lastCall, sinceFlush, lastAnswer,
             unhandled, delivered>>

tagVars == <<tagToLogEntries, tagPc, uploading, pendingTags, tagCall>>

evalVars == <<evalPc, batchSize, queries, generated, outputs, evalCalls,
              evalResult>>

setVars == <<setPc, setCall>>

vars == <<variant, maxEntriesBeforeAutoFlush, nextId, bufVars, tagVars,
          evalVars, setVars>>

(* ---- pieces of log() and flush() ---- *)

\* const logEntry = { query, inference_output: { generated_response, contexts } }
LogEntry(q) == [query |-> q, inference_output |-> [generated_response |-> q]]

\* (bug variant: the entry is put in front of the buffer)
PushFront(buf, e) == <<e>> \o buf

\* (bug variant: the entry replaces the buffer)
PushOverwrite(buf, e) == <<e>>

\* this.logEntries.push(logEntry)
Push(buf, e) == Append(buf, e)

\* (bug variant: the flush waits for one entry more than the threshold)
AutoFlushDueStrict(buf, max) == Len(buf) > max

\* (bug variant: the flush is triggered at the threshold only, not above it)
AutoFlushDueExact(buf, max) == Len(buf) = max

\* if (this.logEntries.length >= this.maxEntriesBeforeAutoFlush)
AutoFlushDue(buf, max) == Len(buf) >= max

\* (bug variant: the empty-buffer early return never taken)
NothingToFlushNever(buf) == FALSE

\* if (this.logEntries.length === 0) { ...; return; }
NothingToFlush(buf) == Len(buf) = 0

\* (bug variant: only the newest entry is put in the request)
LogRequestNewestOnly(buf) == [log_entries |-> SubSeq(buf, Len(buf), Len(buf))]

\* const logRequest = { log_entries: this.logEntries }
LogRequest(buf) == [log_entries |-> buf]

\* (bug variant: the assignment that clears the buffer is missing)
ClearedEntriesKept(buf) == buf

\* (bug variant: the newest entry survives the clearing)
ClearedEntriesNewestKept(buf) == SubSeq(buf, Len(buf), Len(buf))

\* this.logEntries = []   (after the awaited request has resolved)
ClearedEntries(buf) == << >>

\* (bug variant: the buffer is cleared in the failure path as well)
RetainedEntriesDropped(buf) == << >>

\* the catch block of flush(): the buffer is not touched, the error is rethrown
RetainedEntries(buf) == buf

\* log(): `await this.flush()` in the fore build, `this.flush()` in the lib build
LogAwaitsFlush(v) == v = "fore"

\* every request of an earlier call stops being "of the current call"
Retire(reqs) == [i \in DOMAIN reqs |-> [reqs[i] EXCEPT !.current = FALSE]]

RemoveAt(s, i) == [j \in 1..(Len(s) - 1) |-> IF j < i THEN s[j] ELSE s[j + 1]]

NoCall == [op |-> "none", before |-> << >>, reqs |-> 0, payload |-> << >>,
           outcome |-> "undefined"]

NoAnswer == [status |-> "none", by |-> "none", awaited |-> FALSE]

NoTagCall == [op |-> "none", tag |-> "none", before |-> << >>,
              started |-> << >>, uploads |-> << >>, outcome |-> "undefined"]

BufInit ==
    /\ logEntries = << >>
    /\ inflight = << >>
    /\ pc = "idle"
    /\ lastCall = NoCall
    /\ sinceFlush = 0
    /\ lastAnswer = NoAnswer
    /\ unhandled = FALSE
    /\ delivered = << >>

TagInit ==
    /\ tagToLogEntries = << >>
    /\ tagPc = "idle"
    /\ uploading = "none"
    /\ pendingTags = {}
    /\ tagCall = NoTagCall

NoError == [message |-> "none", id |-> "none"]

NoResult == [outcome |-> "none", value |-> "none", error |-> NoError]

EvalInit ==
    /\ evalPc = "idle"
    /\ batchSize = 0
    /\ queries = [present |-> FALSE, pairs |-> << >>]
    /\ generated = << >>
    /\ outputs = << >>
    /\ evalCalls = << >>
    /\ evalResult = NoResult

NoArray == [kind |-> "undefined", items |-> << >>]

NoSetCall == [op |-> "none", evalsetId |-> "undefined", queries |-> NoArray,
              referenceAnswers |-> NoArray, reqs |-> 0, request |-> << >>,
              outcome |-> "undefined", error |-> NoError]

SetInit ==
    /\ setPc = "idle"
    /\ setCall = NoSetCall

Init ==
    /\ variant \in Variants
    /\ maxEntriesBeforeAutoFlush \in 1..MaxThreshold
    /\ nextId = 0
    /\ BufInit
    /\ TagInit
    /\ EvalInit
    /\ SetInit

(* ---- log({ query, response, contexts }) ---- *)

\* below the threshold: the entry is appended and log() returns
LogBuffered ==
    /\ pc = "idle"
    /\ nextId < MaxCalls
    /\ LET buf == Push(logEntries, LogEntry(nextId + 1)) IN
        /\ ~AutoFlushDue(buf, maxEntriesBeforeAutoFlush)
        /\ logEntries' = buf
        /\ lastCall' = [op |-> "log", before |-> logEntries, reqs |-> 0,
                        payload |-> << >>, outcome |-> "undefined"]
    /\ nextId' = nextId + 1
    /\ sinceFlush' = sinceFlush + 1
    /\ delivered' = Append(delivered, 0)
    /\ inflight' = Retire(inflight)
    /\ UNCHANGED <<variant, maxEntriesBeforeAutoFlush, pc, lastAnswer, unhandled,
                   tagVars,
                   evalVars, setVars>>

\* at the threshold: the entry is appended and flush() is entered, which
\* issues the request; the fore build suspends log() on it, the lib build
\* returns from log() at once
LogAutoFlush ==
    /\ pc = "idle"
    /\ nextId < MaxCalls
    /\ LET buf == Push(logEntries, LogEntry(nextId + 1)) IN
        /\ AutoFlushDue(buf, maxEntriesBeforeAutoFlush)
        /\ ~NothingToFlush(buf)
        /\ logEntries' = buf
        /\ inflight' = Append(Retire(inflight),
                              [payload |-> LogRequest(buf).log_entries,
                               by |-> "log",
                               awaited |-> LogAwaitsFlush(variant),
                               current |-> TRUE])
        /\ lastCall' = [op |-> "log", before |-> logEntries, reqs |-> 1,
                        payload |-> LogRequest(buf).log_entries,
                        outcome |-> IF LogAwaitsFlush(variant)
                                    THEN "pending" ELSE "undefined"]
    /\ pc' = IF LogAwaitsFlush(variant) THEN "log" ELSE "idle"
    /\ nextId' = nextId + 1
    /\ sinceFlush' = sinceFlush + 1
    /\ delivered' = Append(delivered, 0)
    /\ UNCHANGED <<variant, maxEntriesBeforeAutoFlush, lastAnswer, unhandled,
                   tagVars,
                   evalVars, setVars>>

(* ---- flush() ---- *)

\* nothing buffered: "No log entries to flush.", returns undefined
FlushEmpty ==
    /\ pc = "idle"
    /\ NothingToFlush(logEntries)
    /\ lastCall' = [op |-> "flush", before |-> logEntries, reqs |-> 0,
                    payload |-> << >>, outcome |-> "undefined"]
    /\ inflight' = Retire(inflight)
    /\ UNCHANGED <<variant, maxEntriesBeforeAutoFlush, logEntries, pc, nextId,
                   sinceFlush, lastAnswer, unhandled, delivered, tagVars,
                   evalVars, setVars>>

\* entries buffered: the request is issued and the caller waits for it
FlushSend ==
    /\ pc = "idle"
    /\ ~NothingToFlush(logEntries)
    /\ inflight' = Append(Retire(inflight),
                          [payload |-> LogRequest(logEntries).log_entries,
                           by |-> "flush", awaited |-> TRUE,
                           current |-> TRUE])
    /\ lastCall' = [op |-> "flush", before |-> logEntries, reqs |-> 1,
                    payload |-> LogRequest(logEntries).log_entries,
                    outcome |-> "pending"]
    /\ pc' = "flush"
    /\ UNCHANGED <<variant, maxEntriesBeforeAutoFlush, logEntries, nextId,
                   sinceFlush, lastAnswer, unhandled, delivered, tagVars,
                   evalVars, setVars>>

(* ---- the transport answers a request ---- *)

\* 2xx: flush() clears the buffer and returns the body; an awaiting log()
\* returns undefined
ResponseOk(i) ==
    /\ i \in DOMAIN inflight
    /\ logEntries' = ClearedEntries(logEntries)
    /\ sinceFlush' = 0
    /\ delivered' = [k \in DOMAIN delivered |->
                        delivered[k] + Cardinality(
                            {j \in DOMAIN inflight[i].payload :
                                inflight[i].payload[j].query = k})]
    /\ inflight' = RemoveAt(inflight, i)
    /\ lastAnswer' = [status |-> "ok", by |-> inflight[i].by,
                      awaited |-> inflight[i].awaited]
    /\ IF inflight[i].awaited
       THEN /\ pc' = "idle"
            /\ lastCall' = [lastCall EXCEPT !.outcome =
                               IF pc = "flush" THEN "response" ELSE "undefined"]
       ELSE UNCHANGED <<pc, lastCall>>
    /\ UNCHANGED <<variant, maxEntriesBeforeAutoFlush, nextId, unhandled, tagVars,
                   evalVars, setVars>>

\* non-2xx or network failure: _makeRequest rethrows, flush() rethrows, an
\* awaiting log() rethrows; a flush() nobody awaits rejects unobserved
ResponseError(i) ==
    /\ i \in DOMAIN inflight
    /\ logEntries' = RetainedEntries(logEntries)
    /\ inflight' = RemoveAt(inflight, i)
    /\ lastAnswer' = [status |-> "error", by |-> inflight[i].by,
                      awaited |-> inflight[i].awaited]
    /\ IF inflight[i].awaited
       THEN /\ pc' = "idle"
            /\ lastCall' = [lastCall EXCEPT !.outcome = "error"]
            /\ UNCHANGED unhandled
       ELSE /\ unhandled' = TRUE
            /\ UNCHANGED <<pc, lastCall>>
    /\ UNCHANGED <<variant, maxEntriesBeforeAutoFlush, nextId, sinceFlush,
                   delivered, tagVars, evalVars, setVars>>

Next ==
    \/ LogBuffered
    \/ LogAutoFlush
    \/ FlushEmpty
    \/ FlushSend
    \/ \E i \in 1..(MaxCalls + 1) : ResponseOk(i)
    \/ \E i \in 1..(MaxCalls + 1) : ResponseError(i)

Spec == Init /\ [][Next]_vars

\* the same client with a transport that answers every upload with success
NextUploadsSucceed ==
    \/ LogBuffered
    \/ LogAutoFlush
    \/ FlushEmpty
    \/ FlushSend
    \/ \E i \in 1..(MaxCalls + 1) : ResponseOk(i)

SpecUploadsSucceed == Init /\ [][NextUploadsSucceed]_vars

TypeOK ==
    /\ variant \in Variants
    /\ pc \in {"idle", "log", "flush"}
    /\ Len(logEntries) <= MaxCalls
    /\ Len(inflight) <= MaxCalls + 1

(***************************************************************************)
(* The tagged client (README: log({ ..., tag })).  Its log() and flush()   *)
(* are not among the files under src/; the mapping from tag to buffer and  *)
(* the walk over the tags follow the design document, section 4.1, and the *)
(* handling of one buffer reuses the pieces of log() and flush() above.    *)
(* log() awaits the flush() it triggers.                                   *)
(***************************************************************************)

DefaultTag == "default"

Tags == {DefaultTag, "exp_a", "exp_b"}

\* tagToLogEntries[tag], an absent bucket reading as empty
Bucket(m, t) == IF t \in DOMAIN m THEN m[t] ELSE << >>

\* (bug variant: a new bucket replaces the whole mapping)
WithBucketAlone(m, t, buf) == [x \in {t} |-> buf]

\* tagToLogEntries[tag] = buf, creating the bucket if absent
WithBucket(m, t, buf) ==
    [x \in (DOMAIN m) \cup {t} |-> IF x = t THEN buf ELSE m[x]]

\* (bug variant: a flushed tag is deleted from the mapping)
ClearBucketDeleted(m, t) == [x \in (DOMAIN m) \ {t} |-> m[x]]

\* on a successful response the tag's bucket is set to empty, the tag stays
ClearBucket(m, t) == [m EXCEPT ![t] = ClearedEntries(@)]

\* on a failed upload the tag's bucket is left as it is
KeepBucket(m, t) == [m EXCEPT ![t] = RetainedEntries(@)]

\* the tags flush() uploads: those with at least one buffered entry
TagsToFlush(m) == {t \in DOMAIN m : ~NothingToFlush(m[t])}

\* { logEntries: [...], experimentIdPrefix: tag }, no prefix for the default tag
TagLogRequest(t, buf) ==
    [tag |-> t, log_entries |-> LogRequest(buf).log_entries,
     experiment_id_prefix |-> IF t = DefaultTag THEN "omitted" ELSE t]

\* log(tag) below the threshold: append to the tag's bucket and return
TagLogBuffered(t) ==
    /\ tagPc = "idle"
    /\ nextId < MaxCalls
    /\ LET buf == Push(Bucket(tagToLogEntries, t), LogEntry(nextId + 1))
           m == WithBucket(tagToLogEntries, t, buf) IN
        /\ ~AutoFlushDue(buf, maxEntriesBeforeAutoFlush)
        /\ tagToLogEntries' = m
        /\ tagCall' = [op |-> "log", tag |-> t, before |-> tagToLogEntries,
                       started |-> m, uploads |-> << >>,
                       outcome |-> "undefined"]
    /\ nextId' = nextId + 1
    /\ UNCHANGED <<variant, maxEntriesBeforeAutoFlush, bufVars, evalVars, setVars, tagPc,
                   uploading, pendingTags>>

\* log(tag) at the threshold: append, then flush() is entered and uploads
\* the first of the tags that hold entries
TagLogAutoFlush(t, first) ==
    /\ tagPc = "idle"
    /\ nextId < MaxCalls
    /\ LET buf == Push(Bucket(tagToLogEntries, t), LogEntry(nextId + 1))
           m == WithBucket(tagToLogEntries, t, buf) IN
        /\ AutoFlushDue(buf, maxEntriesBeforeAutoFlush)
        /\ first \in TagsToFlush(m)
        /\ tagToLogEntries' = m
        /\ uploading' = first
        /\ pendingTags' = TagsToFlush(m) \ {first}
        /\ tagCall' = [op |-> "log", tag |-> t, before |-> tagToLogEntries,
                       started |-> m,
                       uploads |-> <<TagLogRequest(first, m[first])>>,
                       outcome |-> "pending"]
    /\ tagPc' = "log"
    /\ nextId' = nextId + 1
    /\ UNCHANGED <<variant, maxEntriesBeforeAutoFlush, bufVars, evalVars, setVars>>

\* flush() with no tag holding an entry: no request, returns undefined
TagFlushEmpty ==
    /\ tagPc = "idle"
    /\ TagsToFlush(tagToLogEntries) = {}
    /\ tagCall' = [op |-> "flush", tag |-> "none", before |-> tagToLogEntries,
                   started |-> tagToLogEntries, uploads |-> << >>,
                   outcome |-> "undefined"]
    /\ UNCHANGED <<variant, maxEntriesBeforeAutoFlush, nextId, bufVars, evalVars, setVars,
                   tagToLogEntries, tagPc, uploading, pendingTags>>

\* flush() with entries buffered: the first tag's upload is issued
TagFlushSend(first) ==
    /\ tagPc = "idle"
    /\ first \in TagsToFlush(tagToLogEntries)
    /\ uploading' = first
    /\ pendingTags' = TagsToFlush(tagToLogEntries) \ {first}
    /\ tagCall' = [op |-> "flush", tag |-> "none", before |-> tagToLogEntries,
                   started |-> tagToLogEntries,
                   uploads |-> <<TagLogRequest(first, tagToLogEntries[first])>>,
                   outcome |-> "pending"]
    /\ tagPc' = "flush"
    /\ UNCHANGED <<variant, maxEntriesBeforeAutoFlush, nextId, bufVars, evalVars, setVars,
                   tagToLogEntries>>

\* successful response, more tags to go: clear the bucket, upload the next tag
TagResponseOkNext(next) ==
    /\ tagPc # "idle"
    /\ next \in pendingTags
    /\ tagToLogEntries' = ClearBucket(tagToLogEntries, uploading)
    /\ uploading' = next
    /\ pendingTags' = pendingTags \ {next}
    /\ tagCall' = [tagCall EXCEPT !.uploads =
                      Append(@, TagLogRequest(next, tagToLogEntries'[next]))]
    /\ UNCHANGED <<variant, maxEntriesBeforeAutoFlush, nextId, bufVars, evalVars, setVars, tagPc>>

\* successful response for the last tag: clear the bucket, flush() returns
TagResponseOkDone ==
    /\ tagPc # "idle"
    /\ pendingTags = {}
    /\ tagToLogEntries' = ClearBucket(tagToLogEntries, uploading)
    /\ uploading' = "none"
    /\ tagCall' = [tagCall EXCEPT !.outcome =
                      IF tagPc = "flush" THEN "response" ELSE "undefined"]
    /\ tagPc' = "idle"
    /\ UNCHANGED <<variant, maxEntriesBeforeAutoFlush, nextId, bufVars, evalVars, setVars,
                   pendingTags>>

\* failed upload: the bucket is kept, the remaining tags are not uploaded and
\* the error propagates to the caller of flush() or log()
TagResponseError ==
    /\ tagPc # "idle"
    /\ tagToLogEntries' = KeepBucket(tagToLogEntries, uploading)
    /\ uploading' = "none"
    /\ pendingTags' = {}
    /\ tagCall' = [tagCall EXCEPT !.outcome = "error"]
    /\ tagPc' = "idle"
    /\ UNCHANGED <<variant, maxEntriesBeforeAutoFlush, nextId, bufVars, evalVars, setVars>>

InitTag ==
    /\ variant = "fore"
    /\ maxEntriesBeforeAutoFlush \in 1..MaxThreshold
    /\ nextId = 0
    /\ BufInit
    /\ TagInit
    /\ EvalInit
    /\ SetInit

NextTag ==
    \/ \E t \in Tags : TagLogBuffered(t)
    \/ \E t, first \in Tags : TagLogAutoFlush(t, first)
    \/ TagFlushEmpty
    \/ \E first \in Tags : TagFlushSend(first)
    \/ \E next \in Tags : TagResponseOkNext(next)
    \/ TagResponseOkDone
    \/ TagResponseError

SpecTag == InitTag /\ [][NextTag]_vars

TagTypeOK ==
    /\ tagPc \in {"idle", "log", "flush"}
    /\ DOMAIN tagToLogEntries \subseteq Tags
    /\ pendingTags \subseteq Tags
    /\ (tagPc = "idle") = (uploading = "none")

(***************************************************************************)
(* generateAnswersAndRunEval({ generateFn, runConfig }) of both builds.    *)
(* The call is one async function: it awaits createEvalrun, awaits         *)
(* getEvalrunQueries, runs the loop over Object.entries(queries) without   *)
(* suspending, then awaits one PUT /api/eval/run/entries.  The caller may  *)
(* pass a batchSize with the argument object; the destructuring of the     *)
(* parameter takes generateFn and runConfig only.  generateFn is the       *)
(* caller's: for a query it returns an output, throws, or returns a        *)
(* promise that settles after the loop has run.                            *)
(***************************************************************************)

MaxQueries == 3     \* entries of the evalset the run is created for
MaxBatch == 2       \* largest batchSize a caller passes

\* entry ids are strings that are no array indices ('entry_id_1', ...), so
\* Object.entries lists them in the order the response body has them
EntryIds == 1..MaxQueries

\* strings are sequences of characters
Lowers == <<"a", "b", "c", "d", "e", "f", "g", "h", "i", "j", "k", "l", "m",
            "n", "o", "p", "q", "r", "s", "t", "u", "v", "w", "x", "y", "z">>

Uppers == <<"A", "B", "C", "D", "E", "F", "G", "H", "I", "J", "K", "L", "M",
            "N", "O", "P", "Q", "R", "S", "T", "U", "V", "W", "X", "Y", "Z">>

Digits == <<"1", "2", "3", "4", "5", "6", "7", "8", "9">>

\* chr.toUpperCase()
ToUpperCase(c) ==
    IF \E i \in DOMAIN Lowers : Lowers[i] = c
    THEN Uppers[CHOOSE i \in DOMAIN Lowers : Lowers[i] = c]
    ELSE c

\* chr.toLowerCase()
ToLowerCase(c) ==
    IF \E i \in DOMAIN Uppers : Uppers[i] = c
    THEN Lowers[CHOOSE i \in DOMAIN Uppers : Uppers[i] = c]
    ELSE c

\* the key the server issues for the e-th entry: 'entry_id_1', 'entry_id_2', ...
EntryKey(e) == <<"e", "n", "t", "r", "y", "_", "i", "d", "_", Digits[e]>>

\* humps: /[\-_\s]+(.)?/g
Separators == {"-", "_", " "}

\* humps _isNumerical: a key that reads as a number is left alone
IsNumerical(str) ==
    /\ str # << >>
    /\ \A i \in DOMAIN str : \E d \in DOMAIN Digits : Digits[d] = str[i]

\* string.replace(/[\-_\s]+(.)?/g, (match, chr) => chr ? chr.toUpperCase() : '')
RECURSIVE DropSeparators(_, _)
DropSeparators(str, afterSeparator) ==
    IF str = << >> THEN << >>
    ELSE IF Head(str) \in Separators THEN DropSeparators(Tail(str), TRUE)
    ELSE <<IF afterSeparator THEN ToUpperCase(Head(str)) ELSE Head(str)>>
            \o DropSeparators(Tail(str), FALSE)

\* humps.camelize(string): separators dropped, the character after them in
\* upper case, the first character in lower case
Camelize(str) ==
    IF IsNumerical(str) THEN str
    ELSE LET t == DropSeparators(str, FALSE) IN
         IF t = << >> THEN t ELSE <<ToLowerCase(Head(t))>> \o Tail(t)

\* humps.camelizeKeys(response.data): a new object, filled key by key
RECURSIVE CamelizeKeys(_)
CamelizeKeys(pairs) ==
    IF pairs = << >> THEN << >>
    ELSE LET rest == CamelizeKeys(SubSeq(pairs, 1, Len(pairs) - 1))
             last == pairs[Len(pairs)]
             key == Camelize(last.entryId) IN
         IF \E i \in DOMAIN rest : rest[i].entryId = key
         THEN [i \in DOMAIN rest |->
                  IF rest[i].entryId = key
                  THEN [entryId |-> key, query |-> last.query] ELSE rest[i]]
         ELSE Append(rest, [entryId |-> key, query |-> last.query])

\* fore: the response interceptor, `if (response.data) response.data =
\* camelizeKeys(response.data)`; lib: no interceptor, `return response.data`
ResponseData(v, pairs) == IF v = "fore" THEN CamelizeKeys(pairs) ELSE pairs

\* the evalset of the README: its queries ask for the hardest or for the
\* easiest programming language
QueryOf(e) == IF e % 2 = 1 THEN "easiest" ELSE "hardest"

Bodies == {"created", "success"}

\* response bodies of GET /api/eval/run/queries: (entryId, query) pairs, an
\* entry id at most once
Mappings ==
    {[i \in DOMAIN ids |-> [entryId |-> EntryKey(ids[i]),
                            query |-> QueryOf(ids[i])]] :
        ids \in {m \in UNION {[1..n -> EntryIds] : n \in 0..MaxQueries} :
                    \A i, j \in DOMAIN m : m[i] = m[j] => i = j}}

TransportError == [message |-> "Request failed", id |-> "AxiosError"]

\* Object.entries(null)
TypeError == [message |-> "Cannot convert undefined or null to object",
              id |-> "TypeError"]

CallerError == [message |-> "generateFn failed", id |-> "caller's error"]

\* the generateFn of README and example/index.js
GenerateFn(query) ==
    [generatedResponse |-> IF query = "hardest" THEN "Malbolge" ELSE "Python",
     contexts |-> "languages"]

\* what the loop reads from a promise it did not await: no own property
PromiseObject == [generatedResponse |-> "undefined", contexts |-> "undefined"]

\* fore: outputs[entryId] = { generated_response: generatedResponse, contexts }
\* lib:  outputs[entry_id] = inferenceOutput
InferenceOutput(v, r) ==
    IF v = "fore"
    THEN [generated_response |-> r.generatedResponse, contexts |-> r.contexts]
    ELSE r

\* for (const [entryId, query] of Object.entries(queries))
ObjectEntries(pairs) == pairs

\* outputs[entryId] = output
SetOutput(outs, e, o) ==
    IF \E i \in DOMAIN outs : outs[i].entryId = e
    THEN [i \in DOMAIN outs |->
             IF outs[i].entryId = e THEN [entryId |-> e, output |-> o]
             ELSE outs[i]]
    ELSE Append(outs, [entryId |-> e, output |-> o])

\* const uploadRequest = { experiment_id, entry_id_to_inference_output: outputs }
UploadRequest(outs) == outs

\* fore: catch (error) { throw new Error(error.message) }
\* lib:  catch (error) { throw error }
Rethrow(v, err) ==
    IF v = "fore" THEN [message |-> err.message, id |-> "new Error"] ELSE err

Request(endpoint, payload) ==
    [endpoint |-> endpoint, payload |-> payload, status |-> "pending",
     body |-> "none", served |-> << >>]

\* the newest request has been answered
Answered(calls, status, body) ==
    [calls EXCEPT ![Len(calls)] = [@ EXCEPT !.status = status, !.body = body]]

Thrown(err) == [outcome |-> "thrown", value |-> "none", error |-> err]

Returned(body) == [outcome |-> "returned", value |-> body, error |-> NoError]

\* the call is made: createEvalrun issues POST /api/eval/run
EvalStart(b) ==
    /\ evalPc = "idle"
    /\ batchSize' = b
    /\ evalCalls' = <<Request("createEvalrun", << >>)>>
    /\ evalResult' = [outcome |-> "pending", value |-> "none",
                      error |-> NoError]
    /\ evalPc' = "createEvalrun"
    /\ UNCHANGED <<variant, maxEntriesBeforeAutoFlush, nextId, bufVars, tagVars,
                   setVars,
                   queries, generated, outputs>>

\* the run is created: getEvalrunQueries issues GET /api/eval/run/queries
CreateEvalrunOk(body) ==
    /\ evalPc = "createEvalrun"
    /\ evalCalls' = Append(Answered(evalCalls, "ok", body),
                           Request("getEvalrunQueries", << >>))
    /\ evalPc' = "getEvalrunQueries"
    /\ UNCHANGED <<variant, maxEntriesBeforeAutoFlush, nextId, bufVars, tagVars,
                   setVars,
                   batchSize, queries, generated, outputs, evalResult>>

\* (bug variant: a failed run creation is ignored and the queries are fetched)
CreateEvalrunErrorIgnored ==
    /\ evalPc = "createEvalrun"
    /\ evalCalls' = Append(Answered(evalCalls, "error", "none"),
                           Request("getEvalrunQueries", << >>))
    /\ evalPc' = "getEvalrunQueries"
    /\ UNCHANGED <<variant, maxEntriesBeforeAutoFlush, nextId, bufVars, tagVars,
                   setVars,
                   batchSize, queries, generated, outputs, evalResult>>

\* the run is not created: createEvalrun rethrows, the catch block rethrows
CreateEvalrunError ==
    /\ evalPc = "createEvalrun"
    /\ evalCalls' = Answered(evalCalls, "error", "none")
    /\ evalResult' = Thrown(Rethrow(variant, Rethrow(variant, TransportError)))
    /\ evalPc' = "thrown"
    /\ UNCHANGED <<variant, maxEntriesBeforeAutoFlush, nextId, bufVars, tagVars,
                   setVars,
                   batchSize, queries, generated, outputs>>

\* the queries arrive, none or some: the loop is entered
GetQueriesOk(m) ==
    /\ evalPc = "getEvalrunQueries"
    /\ evalCalls' = [Answered(evalCalls, "ok", "mapping") EXCEPT
                        ![Len(evalCalls)].served = m]
    /\ queries' = [present |-> TRUE, pairs |-> ResponseData(variant, m)]
    /\ evalPc' = "generateFn"
    /\ UNCHANGED <<variant, maxEntriesBeforeAutoFlush, nextId, bufVars, tagVars,
                   setVars,
                   batchSize, generated, outputs, evalResult>>

\* the response has no mapping (null): Object.entries(queries) throws
GetQueriesNull ==
    /\ evalPc = "getEvalrunQueries"
    /\ evalCalls' = Answered(evalCalls, "ok", "null")
    /\ queries' = [present |-> FALSE, pairs |-> << >>]
    /\ evalResult' = Thrown(Rethrow(variant, TypeError))
    /\ evalPc' = "thrown"
    /\ UNCHANGED <<variant, maxEntriesBeforeAutoFlush, nextId, bufVars, tagVars,
                   setVars,
                   batchSize, generated, outputs>>

\* (bug variant: a failed fetch starts the call over with a new run)
GetQueriesErrorRestarts ==
    /\ evalPc = "getEvalrunQueries"
    /\ evalCalls' = <<Request("createEvalrun", << >>)>>
    /\ evalPc' = "createEvalrun"
    /\ UNCHANGED <<variant, maxEntriesBeforeAutoFlush, nextId, bufVars, tagVars,
                   setVars,
                   batchSize, queries, generated, outputs, evalResult>>

\* the fetch fails: getEvalrunQueries rethrows, the catch block rethrows
GetQueriesError ==
    /\ evalPc = "getEvalrunQueries"
    /\ evalCalls' = Answered(evalCalls, "error", "none")
    /\ evalResult' = Thrown(Rethrow(variant, Rethrow(variant, TransportError)))
    /\ evalPc' = "thrown"
    /\ UNCHANGED <<variant, maxEntriesBeforeAutoFlush, nextId, bufVars, tagVars,
                   setVars,
                   batchSize, queries, generated, outputs>>

\* one turn of the loop, generateFn returning an output
GenerateReturns ==
    /\ evalPc = "generateFn"
    /\ Len(generated) < Len(ObjectEntries(queries.pairs))
    /\ LET p == ObjectEntries(queries.pairs)[Len(generated) + 1] IN
        /\ generated' = Append(generated,
                               [entryId |-> p.entryId, query |-> p.query,
                                behaviour |-> "returns", settled |-> "n/a"])
        /\ outputs' = SetOutput(outputs, p.entryId,
                                InferenceOutput(variant, GenerateFn(p.query)))
    /\ UNCHANGED <<variant, maxEntriesBeforeAutoFlush, nextId, bufVars, tagVars,
                   setVars,
                   evalPc, batchSize, queries, evalCalls, evalResult>>

\* one turn of the loop, generateFn being async: the promise it returns,
\* settled already or not, is stored (lib) or destructured (fore) as it is,
\* and the loop goes on
GeneratePromise(state) ==
    /\ evalPc = "generateFn"
    /\ Len(generated) < Len(ObjectEntries(queries.pairs))
    /\ LET p == ObjectEntries(queries.pairs)[Len(generated) + 1] IN
        /\ generated' = Append(generated,
                               [entryId |-> p.entryId, query |-> p.query,
                                behaviour |-> "promise", settled |-> state])
        /\ outputs' = SetOutput(outputs, p.entryId,
                                InferenceOutput(variant, PromiseObject))
    /\ UNCHANGED <<variant, maxEntriesBeforeAutoFlush, nextId, bufVars, tagVars,
                   setVars,
                   evalPc, batchSize, queries, evalCalls, evalResult>>

\* one turn of the loop, generateFn throwing: the catch block rethrows
GenerateThrows ==
    /\ evalPc = "generateFn"
    /\ Len(generated) < Len(ObjectEntries(queries.pairs))
    /\ LET p == ObjectEntries(queries.pairs)[Len(generated) + 1] IN
        generated' = Append(generated,
                            [entryId |-> p.entryId, query |-> p.query,
                             behaviour |-> "throws", settled |-> "n/a"])
    /\ evalResult' = Thrown(Rethrow(variant, CallerError))
    /\ evalPc' = "thrown"
    /\ UNCHANGED <<variant, maxEntriesBeforeAutoFlush, nextId, bufVars, tagVars,
                   setVars,
                   batchSize, queries, outputs, evalCalls>>

\* the loop is over: one PUT /api/eval/run/entries with all of outputs
UploadSend ==
    /\ evalPc = "generateFn"
    /\ Len(generated) = Len(ObjectEntries(queries.pairs))
    /\ evalCalls' = Append(evalCalls, Request("upload", UploadRequest(outputs)))
    /\ evalPc' = "upload"
    /\ UNCHANGED <<variant, maxEntriesBeforeAutoFlush, nextId, bufVars, tagVars,
                   setVars,
                   batchSize, queries, generated, outputs, evalResult>>

\* (bug variant: the response of the first request is returned)
UploadOkFirstBody(body) ==
    /\ evalPc = "upload"
    /\ evalCalls' = Answered(evalCalls, "ok", body)
    /\ evalResult' = Returned(evalCalls[1].body)
    /\ evalPc' = "returned"
    /\ UNCHANGED <<variant, maxEntriesBeforeAutoFlush, nextId, bufVars, tagVars,
                   setVars,
                   batchSize, queries, generated, outputs>>

\* the upload is answered: return response
UploadOk(body) ==
    /\ evalPc = "upload"
    /\ evalCalls' = Answered(evalCalls, "ok", body)
    /\ evalResult' = Returned(body)
    /\ evalPc' = "returned"
    /\ UNCHANGED <<variant, maxEntriesBeforeAutoFlush, nextId, bufVars, tagVars,
                   setVars,
                   batchSize, queries, generated, outputs>>

\* (bug variant: a failed upload is sent once more before the call fails)
UploadErrorResent ==
    /\ evalPc = "upload"
    /\ IF Len(evalCalls) < 4
       THEN /\ evalCalls' = Append(Answered(evalCalls, "error", "none"),
                                   Request("upload", UploadRequest(outputs)))
            /\ UNCHANGED <<evalPc, evalResult>>
       ELSE /\ evalCalls' = Answered(evalCalls, "error", "none")
            /\ evalResult' = Thrown(Rethrow(variant, TransportError))
            /\ evalPc' = "thrown"
    /\ UNCHANGED <<variant, maxEntriesBeforeAutoFlush, nextId, bufVars, tagVars,
                   setVars,
                   batchSize, queries, generated, outputs>>

\* (bug variant: a failed upload is sent again, time after time)
UploadErrorRetriedForever ==
    /\ evalPc = "upload"
    /\ evalCalls' = Answered(evalCalls,
                             IF evalCalls[Len(evalCalls)].status = "pending"
                             THEN "error" ELSE "pending", "none")
    /\ UNCHANGED <<variant, maxEntriesBeforeAutoFlush, nextId, bufVars, tagVars,
                   setVars, evalPc, batchSize, queries, generated, outputs,
                   evalResult>>

\* the upload fails: _makeRequest rethrows, the catch block rethrows
UploadError ==
    /\ evalPc = "upload"
    /\ evalCalls' = Answered(evalCalls, "error", "none")
    /\ evalResult' = Thrown(Rethrow(variant, TransportError))
    /\ evalPc' = "thrown"
    /\ UNCHANGED <<variant, maxEntriesBeforeAutoFlush, nextId, bufVars, tagVars,
                   setVars,
                   batchSize, queries, generated, outputs>>

\* a promise generateFn returned settles; this happens once the loop, which
\* never suspends, has run to its end
PromiseSettles(k, how) ==
    /\ evalPc \in {"upload", "returned", "thrown"}
    /\ k \in DOMAIN generated
    /\ generated[k].settled = "pending"
    /\ generated' = [generated EXCEPT ![k].settled = how]
    /\ UNCHANGED <<variant, maxEntriesBeforeAutoFlush, nextId, bufVars, tagVars,
                   setVars,
                   evalPc, batchSize, queries, outputs, evalCalls, evalResult>>

InitEval ==
    /\ variant \in Variants
    /\ maxEntriesBeforeAutoFlush = MaxThreshold
    /\ nextId = 0
    /\ BufInit
    /\ TagInit
    /\ EvalInit
    /\ SetInit

NextEval ==
    \/ \E b \in 1..MaxBatch : EvalStart(b)
    \/ \E body \in Bodies : CreateEvalrunOk(body)
    \/ CreateEvalrunError
    \/ \E m \in Mappings : GetQueriesOk(m)
    \/ GetQueriesNull
    \/ GetQueriesError
    \/ GenerateReturns
    \/ \E state \in {"pending", "resolved", "rejected"} : GeneratePromise(state)
    \/ GenerateThrows
    \/ UploadSend
    \/ \E body \in Bodies : UploadOk(body)
    \/ UploadError
    \/ \E k \in 1..MaxQueries, how \in {"resolved", "rejected"} :
          PromiseSettles(k, how)

SpecEval == InitEval /\ [][NextEval]_vars

EvalTypeOK ==
    /\ evalPc \in {"idle", "createEvalrun", "getEvalrunQueries", "generateFn",
                   "upload", "returned", "thrown"}
    /\ Len(generated) <= MaxQueries
    /\ Len(evalCalls) <= 3

\* the phase of the call, read from the statement it stands at
Phase(at) ==
    CASE at = "createEvalrun" -> "CREATING_RUN"
      [] at = "getEvalrunQueries" -> "FETCHING_QUERIES"
      [] at = "generateFn" -> "GENERATING"
      [] at = "upload" -> "UPLOADING"
      [] at = "returned" -> "DONE"
      [] at = "thrown" -> "FAILED"
      [] OTHER -> "NOT_STARTED"

(***************************************************************************)
(* createSimpleEvalset({ evalsetId, queries, referenceAnswers = null }) of *)
(* both builds: two checks of the arguments, then one awaited              *)
(* POST /api/eval/set.  An argument is null, undefined or given.           *)
(***************************************************************************)

EvalsetIds == {"null", "undefined", "programming-languages"}

\* arrays of 0..MaxQueries strings, and the two ways of having none
ArrayArgs ==
    {[kind |-> "null", items |-> << >>], [kind |-> "undefined", items |-> << >>]}
    \cup {[kind |-> "array", items |-> [i \in 1..n |-> QueryOf(i)]] :
             n \in 0..MaxQueries}

\* x == null
Nullish(x) == x \in {"null", "undefined"}

\* referenceAnswers = null in the parameter list: undefined becomes null
DefaultNull(a) == IF a.kind = "undefined" THEN [a EXCEPT !.kind = "null"] ELSE a

\* `referenceAnswers &&`: an array, empty or not, is truthy; null is not
Truthy(a) == a.kind = "array"

\* (bug variant: the test is `=== null`, which undefined passes)
MissingNullOnly(id, q) == id = "null" \/ q.kind = "null"

\* if (evalsetId == null || queries == null)
Missing(id, q) == Nullish(id) \/ Nullish(q.kind)

\* (bug variant: an empty referenceAnswers counts as none given)
MismatchIgnoresEmpty(q, r) ==
    Truthy(r) /\ Len(r.items) # 0 /\ Len(q.items) # Len(r.items)

\* if (referenceAnswers && queries.length !== referenceAnswers.length)
Mismatch(q, r) == Truthy(r) /\ Len(q.items) # Len(r.items)

MissingError == [message |-> "evalsetId and queries are required.",
                 id |-> "missing arguments"]

MismatchError == [message |-> "Number of queries and references must match.",
                  id |-> "length mismatch"]

\* referenceAnswers[index]: undefined past the end of the array
ItemAt(items, i) == IF i \in DOMAIN items THEN items[i] ELSE "undefined"

\* queries.map((query, index) => ({ query, reference_answer, entry_id: uuidv4() }))
EvalsetEntries(q, r) ==
    [i \in DOMAIN q.items |->
        [query |-> q.items[i],
         reference_answer |-> IF Truthy(r) THEN ItemAt(r.items, i) ELSE "null",
         entry_id |-> i]]

SetCalled(id, q, r) ==
    [op |-> "createSimpleEvalset", evalsetId |-> id, queries |-> q,
     referenceAnswers |-> r, reqs |-> 0, request |-> << >>,
     outcome |-> "pending", error |-> NoError]

\* evalsetId or queries missing: the call rejects before any request
SetRejectsMissing(id, q, r) ==
    /\ setPc = "idle"
    /\ Missing(id, q)
    /\ setCall' = [SetCalled(id, q, r) EXCEPT
                      !.outcome = "thrown",
                      !.error = Rethrow(variant, MissingError)]
    /\ UNCHANGED <<variant, maxEntriesBeforeAutoFlush, nextId, bufVars, tagVars,
                   evalVars, setPc>>

\* referenceAnswers given with another length than queries: the call rejects
\* before any request
SetRejectsMismatch(id, q, r) ==
    /\ setPc = "idle"
    /\ ~Missing(id, q)
    /\ Mismatch(q, DefaultNull(r))
    /\ setCall' = [SetCalled(id, q, r) EXCEPT
                      !.outcome = "thrown",
                      !.error = Rethrow(variant, MismatchError)]
    /\ UNCHANGED <<variant, maxEntriesBeforeAutoFlush, nextId, bufVars, tagVars,
                   evalVars, setPc>>

\* the arguments pass: POST /api/eval/set is issued and awaited
SetSend(id, q, r) ==
    /\ setPc = "idle"
    /\ ~Missing(id, q)
    /\ ~Mismatch(q, DefaultNull(r))
    /\ setCall' = [SetCalled(id, q, r) EXCEPT
                      !.reqs = 1,
                      !.request = EvalsetEntries(q, DefaultNull(r))]
    /\ setPc' = "createSimpleEvalset"
    /\ UNCHANGED <<variant, maxEntriesBeforeAutoFlush, nextId, bufVars, tagVars,
                   evalVars>>

\* the evalset is created: the response is returned
SetResponseOk ==
    /\ setPc = "createSimpleEvalset"
    /\ setCall' = [setCall EXCEPT !.outcome = "response"]
    /\ setPc' = "idle"
    /\ UNCHANGED <<variant, maxEntriesBeforeAutoFlush, nextId, bufVars, tagVars,
                   evalVars>>

\* the request fails: _makeRequest rethrows, the catch block rethrows
SetResponseError ==
    /\ setPc = "createSimpleEvalset"
    /\ setCall' = [setCall EXCEPT !.outcome = "thrown",
                                  !.error = Rethrow(variant, TransportError)]
    /\ setPc' = "idle"
    /\ UNCHANGED <<variant, maxEntriesBeforeAutoFlush, nextId, bufVars, tagVars,
                   evalVars>>

InitSet ==
    /\ variant \in Variants
    /\ maxEntriesBeforeAutoFlush = MaxThreshold
    /\ nextId = 0
    /\ BufInit
    /\ TagInit
    /\ EvalInit
    /\ SetInit

NextSet ==
    \/ \E id \in EvalsetIds, q, r \in ArrayArgs : SetRejectsMissing(id, q, r)
    \/ \E id \in EvalsetIds, q, r \in ArrayArgs : SetRejectsMismatch(id, q, r)
    \/ \E id \in EvalsetIds, q, r \in ArrayArgs : SetSend(id, q, r)
    \/ SetResponseOk
    \/ SetResponseError

SpecSet == InitSet /\ [][NextSet]_vars

(***************************************************************************)
(* Progress.  One client, used for logging or for an eval run.  Every      *)
(* request handed to the transport is answered (axios resolves or rejects, *)
(* at the latest when `timeout: this.timeoutSeconds * 1000` expires), and  *)
(* the loop over the queries keeps running (generateFn returns or throws). *)
(***************************************************************************)

\* the fetched mapping holds the first n entries of the evalset, in its order
LiveMappings == {m \in Mappings : \A i \in DOMAIN m : m[i].entryId = EntryKey(i)}

\* the transport answers the i-th request in flight
TransportAnswers(i) == ResponseOk(i) \/ ResponseError(i)

\* the transport answers the request generateAnswersAndRunEval awaits
EvalTransportAnswers ==
    \/ \E body \in Bodies : CreateEvalrunOk(body)
    \/ CreateEvalrunError
    \/ \E m \in LiveMappings : GetQueriesOk(m)
    \/ GetQueriesNull
    \/ GetQueriesError
    \/ \E body \in Bodies : UploadOk(body)
    \/ UploadError

\* the synchronous part of generateAnswersAndRunEval runs on
LoopRuns ==
    \/ GenerateReturns
    \/ \E state \in {"pending", "resolved", "rejected"} : GeneratePromise(state)
    \/ GenerateThrows
    \/ UploadSend

LiveThreshold == 2   \* maxEntriesBeforeAutoFlush of the client

InitLive ==
    /\ variant \in Variants
    /\ maxEntriesBeforeAutoFlush = LiveThreshold
    /\ nextId = 0
    /\ BufInit
    /\ TagInit
    /\ EvalInit
    /\ SetInit

\* generateAnswersAndRunEval, called on a client not used for logging
NextLiveEval ==
    \/ EvalStart(MaxBatch)
    \/ \E m \in LiveMappings : GetQueriesOk(m)
    \/ EvalTransportAnswers
    \/ LoopRuns
    \/ \E k \in 1..MaxQueries, how \in {"resolved", "rejected"} :
          PromiseSettles(k, how)

NextLive ==
    \/ evalPc = "idle" /\ Next
    \/ lastCall = NoCall /\ NextLiveEval

Fairness ==
    /\ \A i \in 1..(MaxCalls + 1) : WF_vars(TransportAnswers(i))
    /\ WF_vars(EvalTransportAnswers)
    /\ WF_vars(LoopRuns)

SpecLive == InitLive /\ [][NextLive]_vars /\ Fairness

(***************************************************************************)
(* Properties of the log buffer (builds under src/)                        *)
(***************************************************************************)

\* the entries a client holds when its last sinceFlush log() calls are the
\* ones not yet flushed: those calls' entries, in call order
EntriesSinceFlush == [k \in 1..sinceFlush |-> LogEntry(nextId - sinceFlush + k)]

\* C1: in every reachable state the number of buffered entries equals the
\* number of log() calls made since the last successful flush, whatever the
\* sequence of log() and flush() calls and whether the flushes succeed or fail.
C1_BufferCountsLogCalls == Len(logEntries) = sinceFlush

\* C1 witness: two entries are buffered after a flush has failed, and an
\* earlier flush had succeeded.
C1_Witness ==
    /\ sinceFlush >= 2
    /\ nextId > sinceFlush
    /\ Len(logEntries) = sinceFlush
    /\ lastCall.outcome = "error"

\* C3: log() issues no transport call while the post-append size is below
\* maxEntriesBeforeAutoFlush, and when the threshold is reached the flush it
\* triggers has been answered (its request is no longer in flight) by the
\* time log() has returned to its caller.
C3_LogFlushSynchronous ==
    /\ (lastCall.op = "log"
          /\ Len(lastCall.before) + 1 < maxEntriesBeforeAutoFlush)
        => lastCall.reqs = 0
    /\ (lastCall.op = "log" /\ pc = "idle")
        => \A i \in DOMAIN inflight : ~inflight[i].current

\* C4: flush() called with nothing buffered issues no transport call, leaves
\* the buffer as it is and returns undefined without an error.
C4_FlushEmptyIsNoOp ==
    [][(/\ pc = "idle"
        /\ Len(logEntries) = 0
        /\ lastCall'.op = "flush"
        /\ Len(inflight') >= Len(inflight))
       => (/\ Len(inflight') = Len(inflight)
           /\ logEntries' = logEntries
           /\ pc' = "idle"
           /\ lastCall'.reqs = 0
           /\ lastCall'.outcome = "undefined")]_vars

\* C4 witness: a flush() on an empty buffer has returned undefined, after
\* entries had been logged and flushed.
C4_Witness ==
    /\ lastCall.op = "flush"
    /\ lastCall.before = << >>
    /\ lastCall.reqs = 0
    /\ lastCall.outcome = "undefined"
    /\ nextId >= 1
    /\ pc = "idle"

\* C6: when the upload issued by flush() fails, the buffer is exactly what it
\* was before the call (same entries, same order) and flush() raises the
\* error to its caller.
C6_FailedFlushKeepsBuffer ==
    [][(/\ Len(inflight') < Len(inflight)
        /\ lastAnswer'.status = "error"
        /\ lastAnswer'.by = "flush")
       => (/\ pc = "flush" /\ pc' = "idle"
           /\ lastCall'.outcome = "error"
           /\ logEntries' = lastCall.before)]_vars

\* C7: every upload request issued by flush() carries all entries buffered
\* when flush() starts, in the order of the log() calls that created them: no
\* entry missing, added or reordered.
C7_RequestCarriesBuffer ==
    [][Len(inflight') > Len(inflight)
       => (/\ inflight'[Len(inflight')].payload = logEntries'
           /\ inflight'[Len(inflight')].payload = EntriesSinceFlush')]_vars

\* C7 witness: a request carrying three entries is in flight.
C7_Witness ==
    \E i \in DOMAIN inflight :
        /\ Len(inflight[i].payload) >= 3
        /\ inflight[i].payload = logEntries

\* C10: when the flush triggered inside log() fails, the error reaches the
\* caller of that log() call (log() does not complete normally), and the
\* buffer keeps the entries the failed flush did not clear, the entry just
\* logged included.
C10_AutoFlushErrorReachesCaller ==
    [][(/\ Len(inflight') < Len(inflight)
        /\ lastAnswer'.status = "error"
        /\ lastAnswer'.by = "log")
       => (/\ pc = "log" /\ pc' = "idle"
           /\ lastCall'.op = "log"
           /\ lastCall'.outcome = "error"
           /\ logEntries' = Append(lastCall.before, LogEntry(nextId)))]_vars

\* C19: at no point are two transport calls of one client in flight at the
\* same time: a request is issued only when every earlier one has been
\* answered.
C19_OneCallInFlight == Len(inflight) <= 1

\* C20: no call issues more than one request (a failed request is not sent
\* again), and when a request fails the buffer is left untouched and still
\* starts with the entries the failed request carried, so that a later
\* flush() sends them.
C20_FailedRequestNotResent ==
    [][/\ lastCall'.reqs <= 1
       /\ (Len(inflight') < Len(inflight) /\ lastAnswer'.status = "error")
          => \A i \in DOMAIN inflight :
                inflight' = RemoveAt(inflight, i)
                => /\ logEntries' = logEntries
                   /\ Len(logEntries') >= Len(inflight[i].payload)
                   /\ SubSeq(logEntries', 1, Len(inflight[i].payload))
                         = inflight[i].payload]_vars

\* C26: no logged entry is ever lost: in every reachable state each entry
\* passed to log() is still in the buffer or was in the payload of an upload
\* that succeeded, also when calls are made while an upload is in flight.
C26_NoEntryLost ==
    \A k \in DOMAIN delivered :
       \/ \E j \in DOMAIN logEntries : logEntries[j] = LogEntry(k)
       \/ delivered[k] >= 1

\* C27: no logged entry is uploaded twice: over all successful uploads each
\* entry passed to log() is in at most one payload.
C27_NoEntryUploadedTwice == \A k \in DOMAIN delivered : delivered[k] <= 1

\* C28: with every upload succeeding and a caller that awaits each call, the
\* buffer holds fewer than maxEntriesBeforeAutoFlush entries whenever a
\* log() or flush() call has returned.
C28_BufferBelowThreshold ==
    (pc = "idle" /\ lastCall.op \in {"log", "flush"})
    => Len(logEntries) < maxEntriesBeforeAutoFlush

\* C29: while the buffer is at or above maxEntriesBeforeAutoFlush (a failed
\* automatic flush left it there), every log() call appends its entry and
\* issues a new upload whose payload is the retained entries plus the new
\* one, so the buffer grows by one per call; a successful upload leaves the
\* buffer empty.
C29_RetriedOnEveryLog ==
    [][/\ (/\ pc = "idle"
           /\ Len(logEntries) >= maxEntriesBeforeAutoFlush
           /\ nextId' = nextId + 1)
          => /\ logEntries' = Append(logEntries, LogEntry(nextId'))
             /\ Len(inflight') = Len(inflight) + 1
             /\ inflight'[Len(inflight')].payload = logEntries'
             /\ lastCall'.op = "log"
             /\ lastCall'.reqs = 1
       /\ (Len(inflight') < Len(inflight) /\ lastAnswer'.status = "ok")
          => logEntries' = << >>]_vars

\* C29 witness: after a failed automatic flush a following log() has its
\* upload in flight, carrying more entries than the threshold.
C29_Witness ==
    /\ variant = "fore"
    /\ pc = "log"
    /\ lastAnswer.status = "error"
    /\ lastAnswer.by = "log"
    /\ Len(logEntries) > maxEntriesBeforeAutoFlush
    /\ Len(inflight) = 1
    /\ inflight[1].payload = logEntries

\* C30: a flush() called directly after a successful flush(), with no log()
\* in between, issues no transport call, returns undefined and leaves the
\* buffer empty.
C30_FlushIdempotent ==
    [][(/\ pc = "idle"
        /\ lastCall.op = "flush"
        /\ lastCall.outcome = "response"
        /\ lastCall' # lastCall
        /\ lastCall'.op = "flush")
       => (/\ logEntries = << >>
           /\ logEntries' = << >>
           /\ Len(inflight') = Len(inflight)
           /\ lastCall'.reqs = 0
           /\ lastCall'.outcome = "undefined"
           /\ pc' = "idle")]_vars

\* C30 witness: a flush() that found nothing to upload has returned; the
\* transport's last answer was the success of a flush() and no log() call
\* was made since.
C30_Witness ==
    /\ pc = "idle"
    /\ lastCall.op = "flush"
    /\ lastCall.reqs = 0
    /\ lastCall.outcome = "undefined"
    /\ lastAnswer.status = "ok"
    /\ lastAnswer.by = "flush"
    /\ sinceFlush = 0
    /\ nextId >= 2
    /\ inflight = << >>

(***************************************************************************)
(* Properties of the tagged client                                         *)
(***************************************************************************)

\* the tags of the uploads a call has issued
UploadTags(c) == {c.uploads[i].tag : i \in DOMAIN c.uploads}

\* a log() call has returned whose append brought its tag's buffer to
\* exactly maxEntriesBeforeAutoFlush
LogReachedThreshold ==
    /\ tagPc = "idle"
    /\ tagCall.op = "log"
    /\ Len(Bucket(tagCall.started, tagCall.tag)) = maxEntriesBeforeAutoFlush

UploadsArePerTag(c) ==
    /\ \A i, j \in DOMAIN c.uploads :
          c.uploads[i].tag = c.uploads[j].tag => i = j
    /\ \A i \in DOMAIN c.uploads :
          /\ c.uploads[i].tag \in TagsToFlush(c.started)
          /\ c.uploads[i].log_entries = c.started[c.uploads[i].tag]

Uploads == SelectSeq(evalCalls, LAMBDA c : c.endpoint = "upload")

RECURSIVE Concat(_)
Concat(seqs) == IF seqs = << >> THEN << >> ELSE Head(seqs) \o Concat(Tail(seqs))

Ceil(n, b) == (n + b - 1) \div b

\* the query mapping has been fetched
Fetched == Len(evalCalls) >= 2 /\ evalCalls[2].status = "ok"

\* C11: the run-creation call has completed successfully before the query
\* fetch, any generateFn call or any upload is started; when run creation
\* fails the call fails with no query fetch, no generateFn call and no upload.
C11_RunCreatedFirst ==
    /\ evalCalls # << >> => evalCalls[1].endpoint = "createEvalrun"
    /\ (Len(evalCalls) >= 2 \/ generated # << >>)
        => evalCalls[1].status = "ok"
    /\ \A i \in DOMAIN evalCalls :
          i >= 2 => evalCalls[i].endpoint # "createEvalrun"
    /\ (evalCalls # << >> /\ evalCalls[1].status = "error")
        => /\ Len(evalCalls) = 1
           /\ generated = << >>
           /\ evalResult.outcome = "thrown"

\* C11 witness: run creation has failed and the call has thrown.
C11_Witness ==
    /\ evalCalls # << >>
    /\ evalCalls[1].status = "error"
    /\ evalPc = "thrown"

\* C12: when the fetched mapping is empty or absent, the call returns
\* undefined without raising an error, calls generateFn zero times and
\* issues zero upload calls.
C12_NothingToEvaluate ==
    (Fetched /\ queries.pairs = << >>)
    => /\ generated = << >>
       /\ Uploads = << >>
       /\ evalResult.outcome # "thrown"
       /\ evalPc \in {"returned", "thrown"}
          => evalResult = Returned("undefined")

\* C13: generateFn is called once per fetched pair, in the order of the
\* fetched mapping, each call's result is there before the next call starts,
\* and the output uploaded for an entry is the resolved result of generateFn
\* for the entry's query.
C13_GenerateFnAwaitedInOrder ==
    /\ Len(generated) <= Len(queries.pairs)
    /\ \A k \in DOMAIN generated :
          /\ generated[k].entryId = queries.pairs[k].entryId
          /\ generated[k].query = queries.pairs[k].query
          /\ k < Len(generated) => generated[k].settled # "pending"
    /\ \A u \in DOMAIN Uploads : \A i \in DOMAIN Uploads[u].payload :
          \E k \in DOMAIN generated :
             /\ generated[k].entryId = Uploads[u].payload[i].entryId
             /\ Uploads[u].payload[i].output
                   = InferenceOutput(variant, GenerateFn(generated[k].query))

\* C14: when generateFn throws or rejects for a query, no upload call is
\* issued, generateFn is not called for the remaining queries, and the call
\* fails with the error.
C14_GenerateFnFailureAborts ==
    \A k \in DOMAIN generated :
       (generated[k].behaviour = "throws" \/ generated[k].settled = "rejected")
       => /\ Uploads = << >>
          /\ k = Len(generated)
          /\ evalResult.outcome \in {"pending", "thrown"}
          /\ evalResult.outcome = "thrown"
             => evalResult.error.message = CallerError.message

\* C15: for n outputs and batch size b the call issues ceil(n/b) uploads of
\* at most b entries each, consecutive slices whose concatenation is the
\* ordered list of all outputs.
C15_UploadsInBatches ==
    /\ \A u \in DOMAIN Uploads : Len(Uploads[u].payload) <= batchSize
    /\ (evalPc = "returned" /\ outputs # << >>)
       => /\ Len(Uploads) = Ceil(Len(outputs), batchSize)
          /\ Concat([u \in DOMAIN Uploads |-> Uploads[u].payload]) = outputs

\* C16: when every upload succeeds the call returns the response body of the
\* last upload it issued; the body of no earlier request is what it returns.
C16_ReturnsLastUploadResponse ==
    evalPc = "returned"
    => /\ Uploads # << >>
       /\ \A u \in DOMAIN Uploads : Uploads[u].status = "ok"
       /\ evalCalls[Len(evalCalls)].endpoint = "upload"
       /\ evalResult = Returned(evalCalls[Len(evalCalls)].body)

\* C16 witness: the call has returned the body of its upload, which differs
\* from the body run creation was answered with.
C16_Witness ==
    /\ evalPc = "returned"
    /\ evalResult.value = "success"
    /\ evalCalls[1].body = "created"
    /\ Len(outputs) >= 2

\* C17: when an upload fails the call fails at once: the failed upload is the
\* last request of the call (no later upload, no compensating request) and
\* the error is raised to the caller.
C17_UploadFailureAborts ==
    \A i \in DOMAIN evalCalls :
       (evalCalls[i].endpoint = "upload" /\ evalCalls[i].status = "error")
       => /\ i = Len(evalCalls)
          /\ evalPc = "thrown"
          /\ evalResult.outcome = "thrown"
          /\ evalResult.error.message = TransportError.message

\* C17 witness: the upload of two outputs has failed and the call has thrown.
C17_Witness ==
    /\ evalPc = "thrown"
    /\ Uploads # << >>
    /\ Uploads[1].status = "error"
    /\ Len(Uploads[1].payload) >= 2

\* C18: a call moves through CREATING_RUN, FETCHING_QUERIES, GENERATING,
\* UPLOADING, DONE in that order; the only other transition is from one of
\* the first four to FAILED, and no phase is entered again once left.
C18_PhasesInOrder ==
    [][Phase(evalPc') # Phase(evalPc)
       => <<Phase(evalPc), Phase(evalPc')>> \in
             {<<"NOT_STARTED", "CREATING_RUN">>,
              <<"CREATING_RUN", "FETCHING_QUERIES">>,
              <<"FETCHING_QUERIES", "GENERATING">>,
              <<"GENERATING", "UPLOADING">>,
              <<"UPLOADING", "DONE">>,
              <<"CREATING_RUN", "FAILED">>,
              <<"FETCHING_QUERIES", "FAILED">>,
              <<"GENERATING", "FAILED">>,
              <<"UPLOADING", "FAILED">>}]_vars

\* C18 witness: a call has gone through every phase to DONE, generateFn
\* having been called for three queries.
C18_Witness ==
    /\ Phase(evalPc) = "DONE"
    /\ Len(generated) = 3
    /\ Len(evalCalls) = 3

\* the keys of a mapping or of a payload, in order
Keys(pairs) == [i \in DOMAIN pairs |-> pairs[i].entryId]

\* C22: getEvalrunQueries resolves with the server's mapping, every key as
\* the server sent it (no case conversion), and the keys of the outputs
\* generateAnswersAndRunEval uploads are the entry ids of that mapping.
C22_EntryIdsUnchanged ==
    (Fetched /\ queries.present)
    => /\ Keys(queries.pairs) = Keys(evalCalls[2].served)
       /\ \A u \in DOMAIN Uploads :
             Keys(Uploads[u].payload) = Keys(evalCalls[2].served)

\* C23: an exception raised by generateFn reaches the caller unchanged: the
\* error the call rejects with is the error value generateFn raised.
C23_CallerErrorUnchanged ==
    (evalPc = "thrown" /\ generated # << >>
       /\ generated[Len(generated)].behaviour = "throws")
    => evalResult.error = CallerError


(***************************************************************************)
(* Properties of createSimpleEvalset                                       *)
(***************************************************************************)

C25_MissingArgumentsRejected ==
    (/\ setCall.op = "createSimpleEvalset"
     /\ \/ setCall.evalsetId \in {"null", "undefined"}
        \/ setCall.queries.kind \in {"null", "undefined"})
    => /\ setPc = "idle"
       /\ setCall.outcome = "thrown"
       /\ setCall.error.message = "evalsetId and queries are required."
       /\ setCall.reqs = 0

\* C25 witness: a call with queries undefined, and reference answers given,
\* has been rejected.
C25_Witness ==
    /\ setCall.op = "createSimpleEvalset"
    /\ setCall.evalsetId = "programming-languages"
    /\ setCall.queries.kind = "undefined"
    /\ setCall.referenceAnswers.kind = "array"
    /\ setCall.outcome = "thrown"


(***************************************************************************)
(* Termination                                                             *)
(***************************************************************************)

\* the upload started by the k-th log() call is in flight
AutoFlushInFlight(k) ==
    \E i \in DOMAIN inflight :
       /\ inflight[i].by = "log"
       /\ inflight[i].payload[Len(inflight[i].payload)] = LogEntry(k)

\* C24: provided every transport call is answered and generateFn returns or
\* throws, every started flush() (called directly, or started by log(),
\* awaited or not) and every started generateAnswersAndRunEval() comes to
\* its end, by completion or by failure.
C24_CallsTerminate ==
    /\ (pc # "idle") ~> (pc = "idle")
    /\ \A k \in 1..MaxCalls : AutoFlushInFlight(k) ~> ~AutoFlushInFlight(k)
    /\ (evalPc \in {"createEvalrun", "getEvalrunQueries", "generateFn", "upload"})
          ~> (evalPc \in {"returned", "thrown"})

\* C24 witness: a generateAnswersAndRunEval() call has returned after
\* uploading the outputs of two queries.
C24_Witness ==
    /\ evalPc = "returned"
    /\ Len(generated) = 2
    /\ Len(evalCalls) = 3
    /\ evalCalls[3].status = "ok"

====
